---- MODULE Spec2Model ----
(***************************************************************************)
(* Model of two pieces of the repository:                                  *)
(*   - api/routes/contentTypes.js: the POST /import handler, run by        *)
(*     concurrent requests against one PostgreSQL store (content_types,    *)
(*     content_fields), one step per awaited statement;                    *)
(*   - admin/src/pages/Dashboards/index.jsx: the useEffect of              *)
(*     MyAssignedSurrogateCasesWidget, with its requests in flight.        *)
(* JavaScript values are tagged records, strings are sequences of          *)
(* one-character strings, so that trim, ||, ??, String() and !! are         *)
(* computed as the language computes them.                                 *)
(***************************************************************************)
EXTENDS Integers, Sequences, FiniteSets, TLC

(***************************************************************************)
(* JavaScript values                                                       *)
(***************************************************************************)
Undef == [t |-> "undefined"]
Null == [t |-> "null"]
S(s) == [t |-> "string", s |-> s]
B(b) == [t |-> "boolean", b |-> b]
N(n) == [t |-> "number", n |-> n]
Obj(o) == [t |-> "object", o |-> o]
Arr(a) == [t |-> "array", a |-> a]

SPACE == " "
EMPTY == <<>>
CONTENT == <<"c", "o", "n", "t", "e", "n", "t">>
TEXT == <<"t", "e", "x", "t">>
TRUE_STR == <<"t", "r", "u", "e">>
FALSE_STR == <<"f", "a", "l", "s", "e">>
DigitChar == <<"0", "1", "2", "3", "4", "5", "6", "7", "8", "9">>

\* ToBoolean: "", 0, null, undefined and false are falsy; objects and arrays are truthy
Truthy(v) ==
  CASE v.t = "string" -> v.s # EMPTY
    [] v.t = "boolean" -> v.b
    [] v.t = "number" -> v.n # 0
    [] v.t \in {"undefined", "null"} -> FALSE
    [] OTHER -> TRUE

\* a || b
JsOr(a, b) == IF Truthy(a) THEN a ELSE b

\* a ?? b
Nullish(a, b) == IF a.t \in {"undefined", "null"} THEN b ELSE a

\* v?.k and v.k on a value that is not null or undefined
Get(v, k) == IF v.t = "object" THEN v.o[k] ELSE Undef

RECURSIVE Digits(_)
Digits(n) == IF n < 10 THEN <<DigitChar[n + 1]>> ELSE Digits(n \div 10) \o <<DigitChar[(n % 10) + 1]>>

\* String(v), for the primitive values
ToStr(v) ==
  CASE v.t = "string" -> v.s
    [] v.t = "boolean" -> IF v.b THEN TRUE_STR ELSE FALSE_STR
    [] v.t = "number" -> IF v.n < 0 THEN <<"-">> \o Digits(0 - v.n) ELSE Digits(v.n)
    [] v.t = "null" -> <<"n", "u", "l", "l">>
    [] OTHER -> <<"u", "n", "d", "e", "f", "i", "n", "e", "d">>

RECURSIVE TrimStart(_)
TrimStart(s) == IF s # EMPTY /\ Head(s) = SPACE THEN TrimStart(Tail(s)) ELSE s

RECURSIVE TrimEnd(_)
TrimEnd(s) == IF s # EMPTY /\ s[Len(s)] = SPACE THEN TrimEnd(SubSeq(s, 1, Len(s) - 1)) ELSE s

\* String.prototype.trim
Trim(s) == TrimEnd(TrimStart(s))

(***************************************************************************)
(* POST /import: validation and normalization (contentTypes.js 15-74)      *)
(***************************************************************************)
MAX_FIELDS == 500

slug(contentType) ==
  Trim(ToStr(JsOr(JsOr(Get(contentType, "slug"), Get(contentType, "key")), S(EMPTY))))

labelSingular(contentType) ==
  Trim(ToStr(JsOr(JsOr(Get(contentType, "singular"), Get(contentType, "label_singular")), S(EMPTY))))

labelPlural(contentType) ==
  Trim(ToStr(JsOr(JsOr(Get(contentType, "plural"), Get(contentType, "label_plural")), S(EMPTY))))

fieldKey(f) == Trim(ToStr(JsOr(JsOr(Get(f, "key"), Get(f, "field_key")), S(EMPTY))))

\* the object the map callback returns for an entry whose key is not blank
NormalizedField(f, index) ==
  [field_key |-> fieldKey(f),
   label |-> Trim(ToStr(JsOr(Get(f, "label"), S(fieldKey(f))))),
   type |-> Trim(ToStr(JsOr(Get(f, "type"), S(TEXT)))),
   required |-> Truthy(Get(f, "required")),
   help_text |-> Trim(ToStr(JsOr(Get(f, "help_text"), S(EMPTY)))),
   order_index |-> IF Get(f, "order_index").t = "number" THEN Get(f, "order_index").n ELSE index,
   config |-> [optionsSource |-> Nullish(Get(f, "optionsSource"), Null),
               options |-> Nullish(Get(f, "options"), Null),
               relation |-> Nullish(Get(f, "relation"), Null)]]

\* fields.map((f, index) => ...): null for a blank key, index the 0-based position
Mapped(fields) ==
  [i \in DOMAIN fields |->
     IF fieldKey(fields[i]) = EMPTY THEN Null ELSE Obj(NormalizedField(fields[i], i - 1))]

\* .filter(Boolean)
normalizedFields(fields) ==
  LET kept == SelectSeq(Mapped(fields), Truthy)
  IN [k \in DOMAIN kept |-> kept[k].o]

ERR_INVALID == "contentType and fields are required"
ERR_TOO_MANY == "Too many fields"
ERR_MISSING == "contentType.slug (or key), contentType.singular, and contentType.plural are required"
ERR_NO_FIELDS == "No valid fields provided"
NO_ERROR == "none"

\* the handler with the length guard moved below the attribute check
ValidationError_LengthChecked_Late(body) ==
  IF ~Truthy(body.contentType) \/ body.fields.t # "array" THEN ERR_INVALID
  ELSE IF slug(body.contentType) = EMPTY \/ labelSingular(body.contentType) = EMPTY
          \/ labelPlural(body.contentType) = EMPTY THEN ERR_MISSING
  ELSE IF Len(body.fields.a) > MAX_FIELDS THEN ERR_TOO_MANY
  ELSE IF Len(normalizedFields(body.fields.a)) = 0 THEN ERR_NO_FIELDS
  ELSE NO_ERROR

\* the four early returns of the handler, in the order the code takes them
ValidationError(body) ==
  IF ~Truthy(body.contentType) \/ body.fields.t # "array" THEN ERR_INVALID
  ELSE IF Len(body.fields.a) > MAX_FIELDS THEN ERR_TOO_MANY
  ELSE IF slug(body.contentType) = EMPTY \/ labelSingular(body.contentType) = EMPTY
          \/ labelPlural(body.contentType) = EMPTY THEN ERR_MISSING
  ELSE IF Len(normalizedFields(body.fields.a)) = 0 THEN ERR_NO_FIELDS
  ELSE NO_ERROR

\* const { dryRun = false } = req.body: the default replaces undefined only
dryRun(body) == IF body.dryRun.t = "undefined" THEN B(FALSE) ELSE body.dryRun

(***************************************************************************)
(* State                                                                   *)
(***************************************************************************)
VARIABLES
  content_types,    \* table content_types: the set of committed rows
  content_fields,   \* table content_fields: the committed rows, in insertion order
  type_id_seq,      \* serial of content_types.id
  field_id_seq,     \* serial of content_fields.id
  clock,            \* the value NOW() returns to the latest transaction
  served,           \* number of requests the route has received
  pc,               \* per handler: the statement it is about to run
  req,              \* per handler: req.body
  conn,             \* per handler: the pooled client's connection, "up" or "lost"
  tx,               \* per handler: the client's open transaction and its pending writes
  existing,         \* per handler: existing.rows
  contentTypeRow,   \* per handler: contentTypeRow
  insertedFields,   \* per handler: insertedFields
  thrown,           \* per handler: the error the try block threw
  response,         \* per handler: what res.status(..).json(..) sent
  released,         \* per handler: number of client.release() calls of this request
  stmts,            \* per handler: the statements this request sent, in order
  snap,             \* per handler: the two tables as they were when the request arrived
  history,          \* the committed imports, oldest first
  items,            \* widget state: items
  busy,             \* widget state: busy
  err,              \* widget state: err
  limit,            \* the widget's limit, config?.limit ?? 10
  mounted,          \* "no" before the first commit, then "yes", then "gone"
  effects           \* the runs of the effect, oldest first, each with its request

handlerVars == <<content_types, content_fields, type_id_seq, field_id_seq, clock, served,
                 pc, req, conn, tx, existing, contentTypeRow, insertedFields, thrown,
                 response, released, stmts, snap, history>>
vars == <<content_types, content_fields, type_id_seq, field_id_seq, clock, served,
          pc, req, conn, tx, existing, contentTypeRow, insertedFields, thrown,
          response, released, stmts, snap, history, items, busy, err, limit, mounted,
          effects>>
widgetVars == <<items, busy, err, limit, mounted, effects>>

\* the requests the server runs at the same time, each on its own pooled client
Handlers == {"h1", "h2"}

NoRow == [none |-> TRUE]
NoTx == [state |-> "none", now |-> 0, op |-> "none", row |-> NoRow, deleted |-> {}, fields |-> <<>>]
NoError == [stmt |-> "none", message |-> "none"]
NoResponse == [status |-> 0]
NoBody == [contentType |-> Undef, fields |-> Undef, dryRun |-> Undef]

(***************************************************************************)
(* The responses of the handler                                            *)
(***************************************************************************)
Res400(error) == [status |-> 400, error |-> error]

\* `Too many fields (${fields.length}). Max allowed is ${MAX_FIELDS}.`
ResTooMany(n) == [status |-> 400, error |-> ERR_TOO_MANY, length |-> n, max |-> MAX_FIELDS]

\* the dry-run answer with fieldsNormalized counted before the filter
ResDryRun_Unfiltered(body) ==
  [status |-> 200, ok |-> TRUE, dryRun |-> TRUE, slug |-> slug(body.contentType),
   willCreateOrUpdate |-> TRUE,
   fieldsProvided |-> Len(body.fields.a),
   fieldsNormalized |-> Len(Mapped(body.fields.a))]

ResDryRun(body) ==
  [status |-> 200, ok |-> TRUE, dryRun |-> TRUE, slug |-> slug(body.contentType),
   willCreateOrUpdate |-> TRUE,
   fieldsProvided |-> Len(body.fields.a),
   fieldsNormalized |-> Len(normalizedFields(body.fields.a))]

ResImported(row, fields, rows) ==
  [status |-> 200, ok |-> TRUE, contentType |-> row, fieldsImported |-> Len(fields),
   replacedExisting |-> Len(rows) > 0]

ResImportFailed(e) == [status |-> 500, error |-> "Import failed", message |-> e.message]

(***************************************************************************)
(* The statements, as PostgreSQL runs them (READ COMMITTED)                *)
(***************************************************************************)
\* a transaction that wrote a content_types row holds that row's lock until it ends
HoldsSlug(q, s) == tx[q].state # "none" /\ tx[q].op # "none" /\ tx[q].row.slug = s

\* an UPDATE or INSERT of slug s waits while another transaction holds the row
MustWait(p, s) == \E q \in Handlers \ {p} : HoldsSlug(q, s)

\* SELECT id FROM content_types WHERE slug = $1
RECURSIVE SetToSeq(_)
SetToSeq(rows) ==
  IF rows = {} THEN <<>>
  ELSE LET r == CHOOSE x \in rows : \A y \in rows : x.id <= y.id
       IN <<r>> \o SetToSeq(rows \ {r})

SelectBySlug(s) == SetToSeq({[id |-> r.id] : r \in {x \in content_types : x.slug = s}})

\* the unique index on content_types.slug
SlugTaken(s) == \E r \in content_types : r.slug = s

\* COALESCE($n, column)
Coalesce(param, column) == IF param.t = "null" THEN column ELSE param

\* a text parameter as node-postgres binds it
TextParam(v) == IF v.t \in {"undefined", "null"} THEN Null ELSE S(ToStr(v))

\* the parameter list both statements share, but for $7
TypeParams(contentType) ==
  [slug |-> S(slug(contentType)),
   type |-> TextParam(JsOr(Get(contentType, "type"), S(CONTENT))),
   label_singular |-> S(labelSingular(contentType)),
   label_plural |-> S(labelPlural(contentType)),
   description |-> TextParam(JsOr(Get(contentType, "description"), S(EMPTY))),
   icon |-> TextParam(Nullish(Get(contentType, "icon"), Null)),
   name |-> S(labelPlural(contentType))]

\* $7 of the UPDATE: typeof contentType.is_system === "boolean" ? contentType.is_system : false
UpdateIsSystem(contentType) ==
  IF Get(contentType, "is_system").t = "boolean" THEN Get(contentType, "is_system") ELSE B(FALSE)

\* $7 of the INSERT: !!contentType.is_system
InsertIsSystem(contentType) == B(Truthy(Get(contentType, "is_system")))

\* UPDATE content_types SET col = COALESCE($n, col), ..., updated_at = NOW()
UpdatedRow(old, contentType, now) ==
  LET a == TypeParams(contentType)
  IN [id |-> old.id,
      slug |-> old.slug,
      type |-> Coalesce(a.type, old.type),
      label_singular |-> Coalesce(a.label_singular, old.label_singular),
      label_plural |-> Coalesce(a.label_plural, old.label_plural),
      description |-> Coalesce(a.description, old.description),
      icon |-> Coalesce(a.icon, old.icon),
      is_system |-> Coalesce(UpdateIsSystem(contentType), old.is_system),
      name |-> Coalesce(a.name, old.name),
      updated_at |-> now]

\* INSERT INTO content_types (...) VALUES ($1, ..., $8)
InsertedRow(id, contentType, now) ==
  LET a == TypeParams(contentType)
  IN [id |-> id,
      slug |-> a.slug.s,
      type |-> a.type,
      label_singular |-> a.label_singular,
      label_plural |-> a.label_plural,
      description |-> a.description,
      icon |-> a.icon,
      is_system |-> InsertIsSystem(contentType),
      name |-> a.name,
      updated_at |-> now]

\* INSERT INTO content_fields (...) VALUES ($1, ..., $8::jsonb)
FieldRow(id, typeId, f) ==
  [id |-> id,
   content_type_id |-> typeId,
   field_key |-> f.field_key,
   label |-> f.label,
   type |-> IF f.type = EMPTY THEN TEXT ELSE f.type,
   required |-> f.required,
   help_text |-> f.help_text,
   order_index |-> f.order_index,
   config |-> f.config]

\* the handler without the DELETE: new fields are added to the stored ones
DeletedIds_Merge(typeId) == {}

\* DELETE FROM content_fields WHERE content_type_id = $1: the rows it removes
DeletedIds(typeId) ==
  {content_fields[k].id : k \in {j \in DOMAIN content_fields : content_fields[j].content_type_id = typeId}}

\* the two tables after COMMIT of transaction t
CommittedTypes(t) ==
  IF t.op = "none" THEN content_types
  ELSE {r \in content_types : r.id # t.row.id} \cup {t.row}

CommittedFields(t) ==
  LET Kept(r) == r.id \notin t.deleted
  IN SelectSeq(content_fields, Kept) \o t.fields

FieldsOfIn(table, typeId) ==
  LET Mine(r) == r.content_type_id = typeId
  IN SelectSeq(table, Mine)

(***************************************************************************)
(* The handler, one action per awaited statement                           *)
(***************************************************************************)
\* what a statement can end as: it runs, the server rejects it, or the connection drops
Faulty == {"ok", "error", "lost"}
Reliable == {"ok"}

MSG_LOST == "Connection terminated unexpectedly"
MSG_UNIQUE == "duplicate key value violates unique constraint"
MSG_ERROR == "statement failed"

\* finally { client.release() }
Finally(n) == n + 1

Sent(p, stmt) == stmts' = [stmts EXCEPT ![p] = Append(@, stmt)]

\* a rejected client.query: control goes to the catch block. A server error leaves the
\* transaction aborted and its locks held; a dropped connection ends the transaction.
Throw(p, stmt, message) ==
  /\ pc' = [pc EXCEPT ![p] = "catch"]
  /\ thrown' = [thrown EXCEPT ![p] = [stmt |-> stmt, message |-> message]]
  /\ conn' = [conn EXCEPT ![p] = IF message = MSG_LOST THEN "lost" ELSE @]
  /\ tx' = [tx EXCEPT ![p] =
              IF message = MSG_LOST THEN NoTx
              ELSE IF @.state = "open" THEN [@ EXCEPT !.state = "failed"] ELSE @]

Fault(o) == IF o = "lost" THEN MSG_LOST ELSE MSG_ERROR

\* router.post("/import", ...): the request arrives and pool.connect() hands it a client
Receive(p, body, max) ==
  /\ pc[p] \in {"idle", "done"}
  /\ served < max
  /\ served' = served + 1
  /\ pc' = [pc EXCEPT ![p] = "validate"]
  /\ req' = [req EXCEPT ![p] = body]
  /\ conn' = [conn EXCEPT ![p] = "up"]
  /\ tx' = [tx EXCEPT ![p] = NoTx]
  /\ existing' = [existing EXCEPT ![p] = <<>>]
  /\ contentTypeRow' = [contentTypeRow EXCEPT ![p] = NoRow]
  /\ insertedFields' = [insertedFields EXCEPT ![p] = <<>>]
  /\ thrown' = [thrown EXCEPT ![p] = NoError]
  /\ response' = [response EXCEPT ![p] = NoResponse]
  /\ released' = [released EXCEPT ![p] = 0]
  /\ stmts' = [stmts EXCEPT ![p] = <<>>]
  /\ snap' = [snap EXCEPT ![p] = [types |-> content_types, fields |-> content_fields]]
  /\ UNCHANGED <<content_types, content_fields, type_id_seq, field_id_seq, clock, history, widgetVars>>

\* lines 15-86: the synchronous run up to the first query; a return runs the finally block
Validate(p) ==
  /\ pc[p] = "validate"
  /\ LET body == req[p]
         e == ValidationError(body)
     IN IF e = ERR_TOO_MANY
          THEN /\ response' = [response EXCEPT ![p] = ResTooMany(Len(body.fields.a))]
               /\ released' = [released EXCEPT ![p] = Finally(@)]
               /\ pc' = [pc EXCEPT ![p] = "done"]
        ELSE IF e # NO_ERROR
          THEN /\ response' = [response EXCEPT ![p] = Res400(e)]
               /\ released' = [released EXCEPT ![p] = Finally(@)]
               /\ pc' = [pc EXCEPT ![p] = "done"]
        ELSE IF Truthy(dryRun(body))
          THEN /\ response' = [response EXCEPT ![p] = ResDryRun(body)]
               /\ released' = [released EXCEPT ![p] = Finally(@)]
               /\ pc' = [pc EXCEPT ![p] = "done"]
        ELSE /\ pc' = [pc EXCEPT ![p] = "begin"]
             /\ UNCHANGED <<response, released>>
  /\ UNCHANGED <<content_types, content_fields, type_id_seq, field_id_seq, clock, served,
                 req, conn, tx, existing, contentTypeRow, insertedFields, thrown, stmts,
                 snap, history, widgetVars>>

\* await client.query("BEGIN")
Begin(p, outcomes) ==
  /\ pc[p] = "begin"
  /\ Sent(p, "BEGIN")
  /\ \E o \in outcomes :
       IF o = "ok"
         THEN /\ clock' = clock + 1
              /\ tx' = [tx EXCEPT ![p] = [NoTx EXCEPT !.state = "open", !.now = clock + 1]]
              /\ pc' = [pc EXCEPT ![p] = "select"]
              /\ UNCHANGED <<conn, thrown>>
         ELSE /\ Throw(p, "BEGIN", Fault(o))
              /\ UNCHANGED clock
  /\ UNCHANGED <<content_types, content_fields, type_id_seq, field_id_seq, served, req,
                 existing, contentTypeRow, insertedFields, response, released, snap,
                 history, widgetVars>>

\* const existing = await client.query(`SELECT id FROM content_types WHERE slug = $1`)
Select(p, outcomes) ==
  /\ pc[p] = "select"
  /\ Sent(p, "SELECT")
  /\ \E o \in outcomes :
       IF o = "ok"
         THEN LET rows == SelectBySlug(slug(req[p].contentType))
              IN /\ existing' = [existing EXCEPT ![p] = rows]
                 /\ pc' = [pc EXCEPT ![p] = IF Len(rows) > 0 THEN "update" ELSE "insertType"]
                 /\ UNCHANGED <<conn, thrown, tx>>
         ELSE /\ Throw(p, "SELECT", Fault(o))
              /\ UNCHANGED existing
  /\ UNCHANGED <<content_types, content_fields, type_id_seq, field_id_seq, clock, served,
                 req, contentTypeRow, insertedFields, response, released, snap, history,
                 widgetVars>>

\* const updated = await client.query(updateSql, [...]); contentTypeRow = updated.rows[0]
UpdateType(p, outcomes) ==
  /\ pc[p] = "update"
  /\ Sent(p, "UPDATE")
  /\ \E o \in outcomes :
       IF o = "ok"
         THEN /\ ~MustWait(p, slug(req[p].contentType))
              /\ \E old \in content_types :
                   /\ old.slug = slug(req[p].contentType)
                   /\ LET row == UpdatedRow(old, req[p].contentType, tx[p].now)
                      IN /\ tx' = [tx EXCEPT ![p].op = "update", ![p].row = row]
                         /\ contentTypeRow' = [contentTypeRow EXCEPT ![p] = row]
              /\ pc' = [pc EXCEPT ![p] = "deleteFields"]
              /\ UNCHANGED <<conn, thrown>>
         ELSE /\ Throw(p, "UPDATE", Fault(o))
              /\ UNCHANGED contentTypeRow
  /\ UNCHANGED <<content_types, content_fields, type_id_seq, field_id_seq, clock, served,
                 req, existing, insertedFields, response, released, snap, history, widgetVars>>

\* await client.query(`DELETE FROM content_fields WHERE content_type_id = $1`)
DeleteFields(p, outcomes) ==
  /\ pc[p] = "deleteFields"
  /\ Sent(p, "DELETE")
  /\ \E o \in outcomes :
       IF o = "ok"
         THEN /\ tx' = [tx EXCEPT ![p].deleted = DeletedIds(contentTypeRow[p].id)]
              /\ pc' = [pc EXCEPT ![p] = "insertField"]
              /\ UNCHANGED <<conn, thrown>>
         ELSE Throw(p, "DELETE", Fault(o))
  /\ UNCHANGED <<content_types, content_fields, type_id_seq, field_id_seq, clock, served,
                 req, existing, contentTypeRow, insertedFields, response, released, snap,
                 history, widgetVars>>

\* const inserted = await client.query(insertTypeSql, [...]); contentTypeRow = inserted.rows[0]
InsertType(p, outcomes) ==
  /\ pc[p] = "insertType"
  /\ Sent(p, "INSERT content_types")
  /\ \E o \in outcomes :
       IF o = "ok"
         THEN /\ ~MustWait(p, slug(req[p].contentType))
              /\ type_id_seq' = type_id_seq + 1
              /\ IF SlugTaken(slug(req[p].contentType))
                   THEN /\ Throw(p, "INSERT content_types", MSG_UNIQUE)
                        /\ UNCHANGED contentTypeRow
                   ELSE LET row == InsertedRow(type_id_seq, req[p].contentType, tx[p].now)
                        IN /\ tx' = [tx EXCEPT ![p].op = "insert", ![p].row = row]
                           /\ contentTypeRow' = [contentTypeRow EXCEPT ![p] = row]
                           /\ pc' = [pc EXCEPT ![p] = "insertField"]
                           /\ UNCHANGED <<conn, thrown>>
         ELSE /\ Throw(p, "INSERT content_types", Fault(o))
              /\ UNCHANGED <<contentTypeRow, type_id_seq>>
  /\ UNCHANGED <<content_types, content_fields, field_id_seq, clock, served, req, existing,
                 insertedFields, response, released, snap, history, widgetVars>>

\* one turn of: for (const f of normalizedFields) { await client.query(insertFieldSql, ...) }
InsertField(p, outcomes) ==
  /\ pc[p] = "insertField"
  /\ Sent(p, "INSERT content_fields")
  /\ \E o \in outcomes :
       IF o = "ok"
         THEN LET fs == normalizedFields(req[p].fields.a)
                  k == Len(insertedFields[p]) + 1
                  row == FieldRow(field_id_seq, contentTypeRow[p].id, fs[k])
              IN /\ field_id_seq' = field_id_seq + 1
                 /\ tx' = [tx EXCEPT ![p].fields = Append(@, row)]
                 /\ insertedFields' = [insertedFields EXCEPT ![p] = Append(@, row)]
                 /\ pc' = [pc EXCEPT ![p] = IF k = Len(fs) THEN "commit" ELSE "insertField"]
                 /\ UNCHANGED <<conn, thrown>>
         ELSE /\ Throw(p, "INSERT content_fields", Fault(o))
              /\ UNCHANGED <<field_id_seq, insertedFields>>
  /\ UNCHANGED <<content_types, content_fields, type_id_seq, clock, served, req, existing,
                 contentTypeRow, response, released, snap, history, widgetVars>>

\* what the history keeps of a committed import
Imported(p, types, fields) ==
  [body |-> req[p],
   slug |-> contentTypeRow[p].slug,
   before |-> IF \E r \in content_types : r.slug = contentTypeRow[p].slug
              THEN CHOOSE r \in content_types : r.slug = contentTypeRow[p].slug
              ELSE NoRow,
   after |-> CHOOSE r \in types : r.slug = contentTypeRow[p].slug,
   fieldsAfter |-> FieldsOfIn(fields, contentTypeRow[p].id),
   response |-> ResImported(contentTypeRow[p], insertedFields[p], existing[p])]

\* await client.query("COMMIT"); return res.json({ ok: true, ... }); finally release
Commit(p, outcomes) ==
  /\ pc[p] = "commit"
  /\ Sent(p, "COMMIT")
  /\ \E o \in outcomes :
       IF o = "ok"
         THEN /\ content_types' = CommittedTypes(tx[p])
              /\ content_fields' = CommittedFields(tx[p])
              /\ tx' = [tx EXCEPT ![p] = NoTx]
              /\ history' = Append(history, Imported(p, content_types', content_fields'))
              /\ response' = [response EXCEPT ![p] =
                                ResImported(contentTypeRow[p], insertedFields[p], existing[p])]
              /\ released' = [released EXCEPT ![p] = Finally(@)]
              /\ pc' = [pc EXCEPT ![p] = "done"]
              /\ UNCHANGED <<conn, thrown>>
         ELSE /\ Throw(p, "COMMIT", Fault(o))
              /\ UNCHANGED <<content_types, content_fields, history, response, released>>
  /\ UNCHANGED <<type_id_seq, field_id_seq, clock, served, req, existing, contentTypeRow,
                 insertedFields, snap, widgetVars>>

\* the handler with client.release() at the end of the catch block instead of in a finally
RollbackWithoutFinally(p, outcomes) ==
  /\ pc[p] = "catch"
  /\ Sent(p, "ROLLBACK")
  /\ \E o \in (outcomes \ {"error"}) :
       IF o = "ok" /\ conn[p] = "up"
         THEN /\ response' = [response EXCEPT ![p] = ResImportFailed(thrown[p])]
              /\ released' = [released EXCEPT ![p] = Finally(@)]
              /\ UNCHANGED conn
         ELSE /\ conn' = [conn EXCEPT ![p] = "lost"]
              /\ UNCHANGED <<response, released>>
  /\ tx' = [tx EXCEPT ![p] = NoTx]
  /\ pc' = [pc EXCEPT ![p] = "done"]
  /\ UNCHANGED <<content_types, content_fields, type_id_seq, field_id_seq, clock, served,
                 req, existing, contentTypeRow, insertedFields, thrown, snap, history,
                 widgetVars>>

\* catch (err) { await client.query("ROLLBACK"); return res.status(500).json(...) } finally
\* release. On a dropped connection the ROLLBACK rejects too: the catch block throws,
\* nothing is sent, and the finally block still runs.
Rollback(p, outcomes) ==
  /\ pc[p] = "catch"
  /\ Sent(p, "ROLLBACK")
  /\ \E o \in (outcomes \ {"error"}) :
       IF o = "ok" /\ conn[p] = "up"
         THEN /\ response' = [response EXCEPT ![p] = ResImportFailed(thrown[p])]
              /\ UNCHANGED conn
         ELSE /\ conn' = [conn EXCEPT ![p] = "lost"]
              /\ UNCHANGED response
  /\ tx' = [tx EXCEPT ![p] = NoTx]
  /\ released' = [released EXCEPT ![p] = Finally(@)]
  /\ pc' = [pc EXCEPT ![p] = "done"]
  /\ UNCHANGED <<content_types, content_fields, type_id_seq, field_id_seq, clock, served,
                 req, existing, contentTypeRow, insertedFields, thrown, snap, history,
                 widgetVars>>

Step(p, outcomes) ==
  \/ Validate(p)
  \/ Begin(p, outcomes)
  \/ Select(p, outcomes)
  \/ UpdateType(p, outcomes)
  \/ DeleteFields(p, outcomes)
  \/ InsertType(p, outcomes)
  \/ InsertField(p, outcomes)
  \/ Commit(p, outcomes)
  \/ Rollback(p, outcomes)

InitHandlers ==
  /\ content_types = {}
  /\ content_fields = <<>>
  /\ type_id_seq = 1
  /\ field_id_seq = 1
  /\ clock = 0
  /\ served = 0
  /\ pc = [p \in Handlers |-> "idle"]
  /\ req = [p \in Handlers |-> NoBody]
  /\ conn = [p \in Handlers |-> "up"]
  /\ tx = [p \in Handlers |-> NoTx]
  /\ existing = [p \in Handlers |-> <<>>]
  /\ contentTypeRow = [p \in Handlers |-> NoRow]
  /\ insertedFields = [p \in Handlers |-> <<>>]
  /\ thrown = [p \in Handlers |-> NoError]
  /\ response = [p \in Handlers |-> NoResponse]
  /\ released = [p \in Handlers |-> 0]
  /\ stmts = [p \in Handlers |-> <<>>]
  /\ snap = [p \in Handlers |-> [types |-> {}, fields |-> <<>>]]
  /\ history = <<>>

(***************************************************************************)
(* MyAssignedSurrogateCasesWidget (Dashboards/index.jsx 37-70)             *)
(***************************************************************************)
DEFAULT_LIMIT == 10
MSG_LOAD == "Could not load your assigned surrogate cases."

\* const limit = config?.limit ?? 10
LimitOf(config) == Nullish(Get(config, "limit"), N(DEFAULT_LIMIT))

\* const rows = Array.isArray(res) ? res : res?.data || []
RowsOf(res) == IF res.t = "array" THEN res ELSE JsOr(Get(res, "data"), Arr(<<>>))

\* the effect without its cancelled flag
Live_Always(e) == TRUE

\* if (!cancelled) ...: the flag of the run that started the request
Live(e) == ~effects[e].cancelled

\* return () => { cancelled = true }: the cleanup of the latest run
Cleanup(es) == [e \in DOMAIN es |-> IF e = Len(es) THEN [es[e] EXCEPT !.cancelled = TRUE] ELSE es[e]]

\* the effect body up to its await: setBusy(true); setErr(""); api.get(...)
RunEffect(es, l) ==
  /\ busy' = TRUE
  /\ err' = ""
  /\ effects' = Append(es, [limit |-> l, cancelled |-> FALSE, state |-> "pending", rows |-> Arr(<<>>)])

\* the first commit of the component runs the effect
Mount ==
  /\ mounted = "no"
  /\ mounted' = "yes"
  /\ RunEffect(effects, limit)
  /\ UNCHANGED <<items, limit, handlerVars>>

\* a render with new props; the effect runs again only when limit changed
Rerender(config, max) ==
  /\ mounted = "yes"
  /\ limit' = LimitOf(config)
  /\ IF limit' # limit
       THEN /\ Len(effects) < max
            /\ RunEffect(Cleanup(effects), limit')
       ELSE UNCHANGED <<busy, err, effects>>
  /\ UNCHANGED <<items, mounted, handlerVars>>

Unmount ==
  /\ mounted = "yes"
  /\ mounted' = "gone"
  /\ effects' = Cleanup(effects)
  /\ UNCHANGED <<items, busy, err, limit, handlerVars>>

\* api.get resolves with res: the rest of the try block, then the finally block
Resolve(e, res) ==
  /\ effects[e].state = "pending"
  /\ effects' = [effects EXCEPT ![e].state = "resolved", ![e].rows = RowsOf(res)]
  /\ IF Live(e)
       THEN /\ items' = RowsOf(res)
            /\ busy' = FALSE
       ELSE UNCHANGED <<items, busy>>
  /\ UNCHANGED <<err, limit, mounted, handlerVars>>

\* api.get rejects: the catch block, then the finally block
Reject(e) ==
  /\ effects[e].state = "pending"
  /\ effects' = [effects EXCEPT ![e].state = "rejected"]
  /\ IF Live(e)
       THEN /\ err' = MSG_LOAD
            /\ busy' = FALSE
       ELSE UNCHANGED <<err, busy>>
  /\ UNCHANGED <<items, limit, mounted, handlerVars>>

\* useState([]), useState(false), useState(""), and DEFAULT_WIDGETS' config
InitWidget ==
  /\ items = Arr(<<>>)
  /\ busy = FALSE
  /\ err = ""
  /\ limit = LimitOf(Obj([limit |-> N(DEFAULT_LIMIT)]))
  /\ mounted = "no"
  /\ effects = <<>>

(***************************************************************************)
(* Request bodies                                                          *)
(***************************************************************************)
NoType ==
  [slug |-> Undef, key |-> Undef, singular |-> Undef, label_singular |-> Undef,
   plural |-> Undef, label_plural |-> Undef, type |-> Undef, description |-> Undef,
   icon |-> Undef, is_system |-> Undef]

NoField ==
  [key |-> Undef, field_key |-> Undef, label |-> Undef, type |-> Undef, required |-> Undef,
   help_text |-> Undef, order_index |-> Undef, optionsSource |-> Undef, options |-> Undef,
   relation |-> Undef]

\* {slug: "a", singular: "A", plural: "As"}
TypeA == Obj([NoType EXCEPT !.slug = S(<<"a">>), !.singular = S(<<"A">>), !.plural = S(<<"A", "s">>)])

\* the same slug through the alternate names, every optional attribute given
TypeAFull ==
  Obj([NoType EXCEPT !.key = S(<<" ", "a", " ">>), !.label_singular = S(<<"A">>),
                     !.label_plural = S(<<"A", "s">>), !.type = S(<<"p">>),
                     !.description = S(<<"d">>), !.icon = S(<<"i">>), !.is_system = B(TRUE)])

\* {slug: "a", ..., is_system: 1}
TypeAFlag == Obj([TypeA.o EXCEPT !.is_system = N(1)])

\* {slug: "b", singular: "B", plural: "Bs", icon: "j"}
TypeB ==
  Obj([NoType EXCEPT !.slug = S(<<"b">>), !.singular = S(<<"B">>), !.plural = S(<<"B", "s">>),
                     !.icon = S(<<"j">>)])

FieldX == Obj([NoField EXCEPT !.key = S(<<"x">>)])
FieldXAgain ==
  Obj([NoField EXCEPT !.key = S(<<" ", "x">>), !.type = S(<<"s">>), !.order_index = N(7)])
FieldY ==
  Obj([NoField EXCEPT !.field_key = S(<<"y">>), !.label = S(<<"Y", " ">>), !.type = S(<<" ">>),
                      !.required = B(TRUE), !.options = S(<<"o">>)])
FieldBlank == Obj([NoField EXCEPT !.key = S(<<" ">>), !.field_key = S(<<"z">>)])

Body(contentType, fields, dry) == [contentType |-> contentType, fields |-> fields, dryRun |-> dry]

\* the imports of the sequential and the concurrent specifications
ImportTypes == {TypeAFull, TypeAFlag, TypeB}
ImportFields == {<<FieldY>>, <<FieldBlank, FieldX, FieldY>>, <<FieldX, FieldXAgain>>}
ImportBodies == {Body(c, Arr(f), Undef) : c \in ImportTypes, f \in ImportFields}

RaceBodies ==
  {Body(TypeA, Arr(<<FieldX>>), Undef), Body(TypeA, Arr(<<FieldY, FieldBlank>>), Undef),
   Body(TypeAFull, Arr(<<FieldX, FieldY>>), Undef), Body(TypeB, Arr(<<FieldX>>), Undef)}

\* the bodies of the validation specification: every way to pass or fail each check
ValidationTypes ==
  {Undef, Null, S(EMPTY), S(<<"a">>), TypeAFull}
  \cup {Obj([NoType EXCEPT !.slug = s, !.key = k, !.singular = g, !.plural = pl]) :
          s \in {Undef, S(<<" ">>), S(<<"a">>)}, k \in {Undef, S(<<"b">>)},
          g \in {Undef, S(<<"A">>)}, pl \in {Undef, S(<<" ", "P">>)}}

ValidationEntries == {FieldX, FieldY, FieldBlank, Null}

\* a list of n entries, the first one `first` and the others with a blank key
Long(n, first) == [i \in 1..n |-> IF i = 1 THEN first ELSE FieldBlank]

ValidationFields ==
  {Undef, Null, S(<<"x">>), Obj(NoField), Arr(<<>>)}
  \cup {Arr(<<e>>) : e \in ValidationEntries}
  \cup {Arr(<<e, f>>) : e \in ValidationEntries, f \in ValidationEntries}
  \cup {Arr(Long(MAX_FIELDS, FieldX)), Arr(Long(MAX_FIELDS, FieldBlank)),
        Arr(Long(MAX_FIELDS + 1, FieldX))}

ValidationBodies ==
  {Body(c, f, d) : c \in ValidationTypes, f \in ValidationFields, d \in {Undef, B(TRUE), B(FALSE)}}

SeedBodies == {Body(TypeA, Arr(<<FieldX>>), Undef)}

Configs == {Undef, Obj([limit |-> Undef]), Obj([limit |-> N(5)]), Obj([limit |-> N(10)]), Obj([limit |-> N(0)])}
Row1 == Obj([id |-> N(1)])
Row2 == Obj([id |-> N(2)])
Results == {Arr(<<Row1>>), Obj([data |-> Arr(<<Row1, Row2>>)]), Obj([data |-> Undef]), Null}

(***************************************************************************)
(* Specifications                                                          *)
(***************************************************************************)
MaxRequests == 3
MaxRace == 2
MaxSeeds == 1
MaxEffects == 3

Init == InitHandlers /\ InitWidget

\* one handler at a time, on a connection that can fail
Next ==
  \/ \E body \in ImportBodies : Receive("h1", body, MaxRequests)
  \/ Step("h1", Faulty)

Spec == Init /\ [][Next]_vars

\* two handlers at a time, on connections that can fail
NextRace ==
  \/ \E p \in Handlers, body \in RaceBodies : Receive(p, body, MaxRace)
  \/ \E p \in Handlers : Step(p, Faulty)

SpecRace == Init /\ [][NextRace]_vars

\* MaxSeeds imports that run without a fault, then one request of any shape on a
\* connection that can fail
Connection == IF served <= MaxSeeds THEN Reliable ELSE Faulty

NextValidate ==
  \/ \E body \in SeedBodies : served < MaxSeeds /\ Receive("h1", body, MaxSeeds)
  \/ \E body \in ValidationBodies : served = MaxSeeds /\ Receive("h1", body, MaxSeeds + 1)
  \/ Validate("h1")
  \/ Begin("h1", Connection)
  \/ Select("h1", Connection)
  \/ UpdateType("h1", Connection)
  \/ DeleteFields("h1", Connection)
  \/ InsertType("h1", Connection)
  \/ InsertField("h1", Connection)
  \/ Commit("h1", Connection)
  \/ Rollback("h1", Connection)

SpecValidate == Init /\ [][NextValidate]_vars

\* the dashboard widget, its renders and its requests in flight
NextWidget ==
  \/ Mount
  \/ \E config \in Configs : Rerender(config, MaxEffects)
  \/ Unmount
  \/ \E e \in DOMAIN effects, res \in Results : Resolve(e, res)
  \/ \E e \in DOMAIN effects : Reject(e)

SpecWidget == Init /\ [][NextWidget]_vars

(***************************************************************************)
(* Properties                                                              *)
(***************************************************************************)
WritePathStatements ==
  {"SELECT", "UPDATE", "DELETE", "INSERT content_types", "INSERT content_fields", "COMMIT"}

Last(q) == q[Len(q)]

\* a field row or a normalized field without its identifiers
FieldContent(r) ==
  [field_key |-> r.field_key, label |-> r.label, type |-> r.type, required |-> r.required,
   help_text |-> r.help_text, order_index |-> r.order_index, config |-> r.config]

FieldContents(rows) == [k \in DOMAIN rows |-> FieldContent(rows[k])]

\* a content-type row without its modification timestamp
TypeContent(r) ==
  [id |-> r.id, slug |-> r.slug, type |-> r.type, label_singular |-> r.label_singular,
   label_plural |-> r.label_plural, description |-> r.description, icon |-> r.icon,
   is_system |-> r.is_system, name |-> r.name]

\* the normalized fields of a body as rows: a type left blank is stored as "text"
ExpectedFields(body) ==
  LET fs == normalizedFields(body.fields.a)
  IN [k \in DOMAIN fs |-> [FieldContent(fs[k]) EXCEPT !.type = IF @ = EMPTY THEN TEXT ELSE @]]

IsLatestOf(k) == \A j \in DOMAIN history : j > k => history[j].slug # history[k].slug

\* C1: after a write-path statement of a validated, non-dry-run import failed, the
\* handler has sent ROLLBACK, has answered 500 "Import failed" with the cause message,
\* and both tables are as they were when the request arrived.
C1_FailedImportRollsBackAndAnswers500 ==
  \A p \in Handlers :
    (pc[p] = "done" /\ thrown[p].stmt \in WritePathStatements) =>
      /\ Last(stmts[p]) = "ROLLBACK"
      /\ response[p] = [status |-> 500, error |-> "Import failed", message |-> thrown[p].message]
      /\ content_types = snap[p].types
      /\ content_fields = snap[p].fields

\* the part of C1 that the code keeps: a failed import leaves both tables as they were
C1_FailedImportLeavesStore ==
  \A p \in Handlers :
    (pc[p] = "done" /\ thrown[p].stmt # "none") =>
      /\ Last(stmts[p]) = "ROLLBACK"
      /\ content_types = snap[p].types
      /\ content_fields = snap[p].fields
      /\ conn[p] = "up" =>
           response[p] = [status |-> 500, error |-> "Import failed", message |-> thrown[p].message]

\* C2: after any sequence of non-overlapping imports, every imported slug has exactly one
\* content-type row, whose field rows are the normalized fields of the latest committed
\* import of that slug, one per normalized field in input order; and each import reports
\* replacedExisting as whether the slug had been imported before.
C2_LatestImportReplacesFields ==
  \A k \in DOMAIN history :
    /\ history[k].response.replacedExisting = (\E j \in 1..(k - 1) : history[j].slug = history[k].slug)
    /\ history[k].response.fieldsImported = Len(ExpectedFields(history[k].body))
    /\ IsLatestOf(k) =>
         /\ Cardinality({r \in content_types : r.slug = history[k].slug}) = 1
         /\ \A r \in content_types :
              r.slug = history[k].slug =>
                FieldContents(FieldsOfIn(content_fields, r.id)) = ExpectedFields(history[k].body)

C2_Witness ==
  \E j, k \in DOMAIN history :
    /\ j < k
    /\ IsLatestOf(k)
    /\ history[j].slug = history[k].slug
    /\ history[k].response.replacedExisting
    /\ ~history[j].response.replacedExisting
    /\ ExpectedFields(history[j].body) # ExpectedFields(history[k].body)
    /\ Len(history[k].body.fields.a) > Len(ExpectedFields(history[k].body))
    /\ Cardinality({r.slug : r \in content_types}) = 2

\* C3: no two stored field rows have the same content type and the same field key.
C3_OneFieldPerKey ==
  \A i, j \in DOMAIN content_fields :
    i # j =>
      ~(/\ content_fields[i].content_type_id = content_fields[j].content_type_id
        /\ content_fields[i].field_key = content_fields[j].field_key)

\* C4: an import of an existing slug leaves kind, description, icon and system flag as
\* stored whenever the request gives null or nothing for that attribute.
C4_AbsentAttributesKept ==
  \A k \in DOMAIN history :
    history[k].before # NoRow =>
      \A a \in {"type", "description", "icon", "is_system"} :
        Get(history[k].body.contentType, a).t \in {"undefined", "null"} =>
          history[k].after[a] = history[k].before[a]

\* the one attribute for which the UPDATE does keep the stored value
C4_AbsentIconKept ==
  \A k \in DOMAIN history :
    (history[k].before # NoRow /\ Get(history[k].body.contentType, "icon").t \in {"undefined", "null"}) =>
      history[k].after.icon = history[k].before.icon

\* the four checks of the claim, each on the raw body
C5_InvalidPayload(b) == ~Truthy(b.contentType) \/ b.fields.t # "array"
C5_TooManyFields(b) == b.fields.t = "array" /\ Len(b.fields.a) > 500
C5_MissingRequired(b) ==
  \/ Trim(ToStr(JsOr(JsOr(Get(b.contentType, "slug"), Get(b.contentType, "key")), S(EMPTY)))) = EMPTY
  \/ Trim(ToStr(JsOr(JsOr(Get(b.contentType, "singular"), Get(b.contentType, "label_singular")), S(EMPTY)))) = EMPTY
  \/ Trim(ToStr(JsOr(JsOr(Get(b.contentType, "plural"), Get(b.contentType, "label_plural")), S(EMPTY)))) = EMPTY
C5_KeptEntries(b) ==
  IF b.fields.t = "array"
  THEN {i \in DOMAIN b.fields.a :
          Trim(ToStr(JsOr(JsOr(Get(b.fields.a[i], "key"), Get(b.fields.a[i], "field_key")), S(EMPTY)))) # EMPTY}
  ELSE {}
C5_NoValidFields(b) == C5_KeptEntries(b) = {}
C5_Fails(b) == C5_InvalidPayload(b) \/ C5_TooManyFields(b) \/ C5_MissingRequired(b) \/ C5_NoValidFields(b)

\* C5: a body that fails a check is answered 400 with the error of the earliest check it
\* fails, in the order InvalidPayload, TooManyFields, MissingRequiredAttributes,
\* NoValidFields; a list of exactly 500 entries is not too long; and the request sends no
\* statement to the database.
C5_EarliestFailingCheckWins ==
  \A p \in Handlers :
    (pc[p] = "done" /\ C5_Fails(req[p])) =>
      /\ response[p].status = 400
      /\ stmts[p] = <<>>
      /\ C5_InvalidPayload(req[p]) <=> response[p].error = ERR_INVALID
      /\ response[p].error = ERR_TOO_MANY =>
           /\ C5_TooManyFields(req[p])
           /\ response[p].length = Len(req[p].fields.a)
           /\ response[p].max = 500
      /\ (C5_TooManyFields(req[p]) /\ ~C5_InvalidPayload(req[p])) => response[p].error = ERR_TOO_MANY
      /\ response[p].error = ERR_MISSING =>
           C5_MissingRequired(req[p]) /\ ~C5_InvalidPayload(req[p]) /\ ~C5_TooManyFields(req[p])
      /\ response[p].error = ERR_NO_FIELDS =>
           /\ C5_NoValidFields(req[p])
           /\ ~C5_InvalidPayload(req[p]) /\ ~C5_TooManyFields(req[p]) /\ ~C5_MissingRequired(req[p])
      /\ response[p].error \in {ERR_INVALID, ERR_TOO_MANY, ERR_MISSING, ERR_NO_FIELDS}

\* a body of more than 500 entries with no slug was answered TooManyFields
C5_Witness ==
  /\ pc["h1"] = "done"
  /\ C5_TooManyFields(req["h1"]) /\ C5_MissingRequired(req["h1"]) /\ ~C5_InvalidPayload(req["h1"])
  /\ response["h1"].status = 400

\* C6: a dry run of a body that passes validation sends no statement, leaves both tables
\* as they were and answers ok with the raw and the kept number of entries; a dry run of
\* a body that fails validation gets the answer the same body gets without dryRun.
C6_DryRunTouchesNothing ==
  \A p \in Handlers :
    (pc[p] = "done" /\ Truthy(req[p].dryRun)) =>
      IF C5_Fails(req[p])
      THEN /\ response[p].status = 400
           /\ response[p].error = ValidationError([req[p] EXCEPT !.dryRun = Undef])
      ELSE /\ stmts[p] = <<>>
           /\ content_types = snap[p].types
           /\ content_fields = snap[p].fields
           /\ response[p].status = 200
           /\ response[p].ok
           /\ response[p].dryRun
           /\ response[p].fieldsProvided = Len(req[p].fields.a)
           /\ response[p].fieldsNormalized = Cardinality(C5_KeptEntries(req[p]))

\* a dry run of a valid body that drops an entry, on a store that holds a content type
C6_Witness ==
  /\ pc["h1"] = "done"
  /\ Truthy(req["h1"].dryRun)
  /\ ~C5_Fails(req["h1"])
  /\ response["h1"].status = 200
  /\ response["h1"].fieldsNormalized < response["h1"].fieldsProvided
  /\ content_types # {}

\* the requests of C7: both handlers have finished an import of the same slug and both
\* found no row for it
Raced(p, q) ==
  /\ p # q
  /\ pc[p] = "done" /\ pc[q] = "done"
  /\ "SELECT" \in {stmts[p][k] : k \in DOMAIN stmts[p]} /\ thrown[p].stmt # "SELECT"
  /\ "SELECT" \in {stmts[q][k] : k \in DOMAIN stmts[q]} /\ thrown[q].stmt # "SELECT"
  /\ existing[p] = <<>> /\ existing[q] = <<>>
  /\ slug(req[p].contentType) = slug(req[q].contentType)

Committed(p) == pc[p] = "done" /\ response[p].status = 200 /\ Last(stmts[p]) = "COMMIT"

\* no statement of the request was hit by a fault of its connection
Unfaulted(p) == conn[p] = "up" /\ thrown[p].message \notin {MSG_LOST, MSG_ERROR}

\* C7: of two imports of the same absent slug that both read "not found", at most one
\* commits; the store then holds exactly one row for the slug, with the committed
\* import's fields only, and the other import is answered 500 "Import failed".
C7_OneOfTwoCreatorsCommits ==
  \A p, q \in Handlers :
    Raced(p, q) =>
      /\ ~(Committed(p) /\ Committed(q))
      /\ Committed(p) =>
           /\ Cardinality({r \in content_types : r.slug = slug(req[p].contentType)}) = 1
           /\ \A r \in content_types :
                r.slug = slug(req[p].contentType) =>
                  /\ r = contentTypeRow[p]
                  /\ FieldsOfIn(content_fields, r.id) = insertedFields[p]
           /\ response[q].status = 500
           /\ response[q].error = "Import failed"

\* the part of C7 that the code keeps: at most one of the two commits, the row and the
\* fields are the committed import's, and the other import is answered 500 unless its
\* connection dropped; with no fault at all, exactly one commits and the other fails on
\* the unique index
C7_RaceIsSafe ==
  \A p, q \in Handlers :
    Raced(p, q) =>
      /\ ~(Committed(p) /\ Committed(q))
      /\ Cardinality({r \in content_types : r.slug = slug(req[p].contentType)}) <= 1
      /\ Committed(p) =>
           /\ Cardinality({r \in content_types : r.slug = slug(req[p].contentType)}) = 1
           /\ \A r \in content_types :
                r.slug = slug(req[p].contentType) =>
                  /\ r = contentTypeRow[p]
                  /\ FieldsOfIn(content_fields, r.id) = insertedFields[p]
           /\ \A k \in DOMAIN content_fields :
                content_fields[k].id \notin {insertedFields[q][j].id : j \in DOMAIN insertedFields[q]}
           /\ conn[q] = "up" => (response[q].status = 500 /\ response[q].error = "Import failed")
      /\ (Unfaulted(p) /\ Unfaulted(q)) =>
           /\ Committed(p) \/ Committed(q)
           /\ Committed(p) =>
                response[q] = [status |-> 500, error |-> "Import failed", message |-> MSG_UNIQUE]

\* both read "not found", one committed, the other lost on the unique index
C7_RaceHappens ==
  \E p, q \in Handlers :
    /\ Raced(p, q)
    /\ Committed(p)
    /\ thrown[q].message = MSG_UNIQUE
    /\ response[q].status = 500

\* C8: importing the same body twice in a row leaves the content-type attributes and the
\* field contents as the first import left them, and the second import reports
\* replacedExisting.
C8_SameImportTwiceConverges ==
  \A k \in DOMAIN history :
    (k > 1 /\ history[k].body = history[k - 1].body) =>
      /\ TypeContent(history[k].after) = TypeContent(history[k - 1].after)
      /\ FieldContents(history[k].fieldsAfter) = FieldContents(history[k - 1].fieldsAfter)
      /\ history[k].response.replacedExisting

\* the part of C8 that the code keeps: the field contents converge
C8_SameImportTwiceSameFields ==
  \A k \in DOMAIN history :
    (k > 1 /\ history[k].body = history[k - 1].body) =>
      /\ FieldContents(history[k].fieldsAfter) = FieldContents(history[k - 1].fieldsAfter)
      /\ history[k].response.replacedExisting

\* C9: a request holds its client from pool.connect() until the handler ends and
\* releases it exactly once, whichever way the handler ends.
C9_ReleasedExactlyOnce ==
  \A p \in Handlers :
    /\ released[p] <= 1
    /\ pc[p] = "done" => released[p] = 1
    /\ pc[p] \notin {"idle", "done"} => released[p] = 0

\* the ROLLBACK itself failed and the client was released
C9_Witness ==
  /\ pc["h1"] = "done"
  /\ stmts["h1"] # <<>>
  /\ Last(stmts["h1"]) = "ROLLBACK"
  /\ thrown["h1"].stmt = "INSERT content_fields"
  /\ response["h1"] = NoResponse
  /\ released["h1"] = 1

Latest == Len(effects)

C10_Shown ==
  mounted = "yes" =>
    /\ effects[Latest].state = "pending" => busy
    /\ effects[Latest].state = "resolved" => (~busy /\ err = "" /\ items = effects[Latest].rows)
    /\ effects[Latest].state = "rejected" => (~busy /\ err = MSG_LOAD)
    /\ \A e \in DOMAIN effects : effects[e].cancelled <=> e # Latest

C10_Settles(e) ==
  /\ e \in DOMAIN effects
  /\ effects[e].state = "pending"
  /\ effects'[e].state # "pending"

\* C10: the answer to a request whose effect was cleaned up changes none of items, err
\* and busy; while the widget is mounted, busy holds as long as the latest request is
\* pending, and once it settled, items or err are the ones it brought.
C10_OnlyLatestRequestShows ==
  /\ [](C10_Shown)
  /\ [][\A e \in DOMAIN effects :
          (C10_Settles(e) /\ effects[e].cancelled) => UNCHANGED <<items, err, busy>>]_vars

\* a superseded request resolved with rows while the latest one was still pending,
\* after an earlier answer had been shown
C10_Witness ==
  /\ mounted = "yes"
  /\ Latest = 3
  /\ effects[1].state = "resolved"
  /\ effects[2].state = "resolved" /\ effects[2].rows # effects[1].rows
  /\ effects[3].state = "pending"
  /\ items = effects[1].rows
  /\ busy

====
